---- MODULE Spec2Model ----
(***************************************************************************)
(* Model of bloodhound/enumeration/acls.py: decoding of a self-relative    *)
(* security descriptor (SecurityDescriptor, LdapSid, ACL, ACE and the two  *)
(* ACE bodies) and the rights evaluation of parse_binary_acl.              *)
(*                                                                         *)
(* A byte buffer is modelled by the records it encodes together with the   *)
(* sizes those records declare and occupy; Python's str is modelled by a   *)
(* TLA+ string, a GUID in text form by its eight groups of four hex digits *)
(* and the case of its letters, a GUID in binary form by its 16 bytes.     *)
(***************************************************************************)
EXTENDS Integers, Sequences, FiniteSets, TLC

VARIABLES
    entrytype,   \* argument entrytype of parse_binary_acl
    acl,         \* argument acl of parse_binary_acl: the raw descriptor
    pc,          \* position in parse_binary_acl
    sd,          \* the SecurityDescriptor built at line 70
    relations,   \* the local list relations
    idx,         \* number of ACEs of sd.dacl.aces the loop has taken
    emitted,     \* what the last loop iteration appended to relations
    result,      \* the value returned, once returned
    raised,      \* the exception that left parse_binary_acl, if any
    access_mask, \* an ACCESS_MASK object used on its own, or None
    calls        \* the set_priv / remove_priv calls made on access_mask

parsevars == <<entrytype, acl, pc, sd, relations, idx, emitted, result, raised>>
maskvars == <<access_mask, calls>>
vars == <<entrytype, acl, pc, sd, relations, idx, emitted, result, raised,
          access_mask, calls>>

----------------------------------------------------------------------------
(* Bounds of the model *)

\* largest number of ACEs stored in the tail of a DACL built from CoreAces
MaxAces == 2

\* largest number of set_priv / remove_priv calls made on one ACCESS_MASK
MaxCalls == 2

----------------------------------------------------------------------------
(* Integer helpers: the bitwise operations of the source on unsigned ints *)

RECURSIVE BitAnd(_, _)
BitAnd(a, b) ==
    IF a = 0 \/ b = 0 THEN 0
    ELSE (a % 2) * (b % 2) + 2 * BitAnd(a \div 2, b \div 2)

RECURSIVE BitOr(_, _)
BitOr(a, b) ==
    IF a = 0 THEN b
    ELSE IF b = 0 THEN a
    ELSE (IF a % 2 = 1 \/ b % 2 = 1 THEN 1 ELSE 0) + 2 * BitOr(a \div 2, b \div 2)

RECURSIVE BitXor(_, _)
BitXor(a, b) ==
    IF a = 0 THEN b
    ELSE IF b = 0 THEN a
    ELSE (((a % 2) + (b % 2)) % 2) + 2 * BitXor(a \div 2, b \div 2)

----------------------------------------------------------------------------
(* ACCESS_MASK *)

GENERIC_READ == \h00020094
GENERIC_WRITE == \h00020028
GENERIC_ALL == \h000F01FF
ACCESS_SYSTEM_SECURITY == \h01000000
SYNCHRONIZE == \h00100000
WRITE_OWNER == \h00080000
WRITE_DACL == \h00040000
READ_CONTROL == \h00020000
DELETE == \h00010000
ADS_RIGHT_DS_CONTROL_ACCESS == \h00000100
ADS_RIGHT_DS_WRITE_PROP == \h00000020

\* has_priv as a test for a non-empty intersection
has_priv_AnyBit(mask, priv) == BitAnd(mask, priv) # 0

\* ACCESS_MASK.has_priv: exact match on the bits of priv
has_priv(mask, priv) == BitAnd(mask, priv) = priv

\* ACCESS_MASK.__init__
ACCESS_MASK_init(mask) == [kind |-> "ACCESS_MASK", mask |-> mask]

\* ACCESS_MASK.set_priv: self.mask |= priv
set_priv(self, priv) == [self EXCEPT !.mask = BitOr(self.mask, priv)]

\* ACCESS_MASK.remove_priv: self.mask ^= priv
remove_priv(self, priv) == [self EXCEPT !.mask = BitXor(self.mask, priv)]

----------------------------------------------------------------------------
(* ACE flags and the presence flags of the object ACE body *)

INHERIT_ONLY_ACE == \h08
INHERITED_ACE == \h10
ACE_OBJECT_TYPE_PRESENT == \h01
ACE_INHERITED_OBJECT_TYPE_PRESENT == \h02

\* ACE.has_flag reading the presence flags of the body, not AceFlags
ACE_has_flag_BodyFlags(ace_object, flag) ==
    BitAnd(ace_object.acedata.data.Flags, flag) = flag

\* ACE.has_flag
ACE_has_flag(ace_object, flag) == BitAnd(ace_object.ace.AceFlags, flag) = flag

\* ACCESS_ALLOWED_OBJECT_ACE.has_flag
OBJECT_ACE_has_flag(acedata, flag) == BitAnd(acedata.data.Flags, flag) = flag

----------------------------------------------------------------------------
(* LdapSid: the decoded LDAP_SID record and its text form *)

\* LDAP_SID as decoded by cstruct: SubAuthority has SubAuthorityCount items
LdapSid(rev, auth, subs) ==
    [kind |-> "LdapSid", Revision |-> rev, SubAuthorityCount |-> Len(subs),
     IdentifierAuthority |-> auth, SubAuthority |-> subs]

\* "-".join(['{:d}'.format(v) for v in SubAuthority])
RECURSIVE JoinDash(_)
JoinDash(subs) ==
    IF Len(subs) = 0 THEN ""
    ELSE IF Len(subs) = 1 THEN ToString(subs[1])
    ELSE ToString(subs[1]) \o "-" \o JoinDash(Tail(subs))

\* LdapSid.__repr__: only the sixth byte of the authority is printed
LdapSid_repr(sid) ==
    "S-" \o ToString(sid.Revision) \o "-" \o ToString(sid.IdentifierAuthority[6])
         \o "-" \o JoinDash(sid.SubAuthority)

\* the value b'' that SecurityDescriptor.__init__ leaves in an absent field
EmptyBytes == [kind |-> "bytes"]

None == [kind |-> "None"]

\* str(x) for the two kinds of value parse_binary_acl applies it to:
\* an LdapSid (its __repr__) or the bytes object b'' (Python 3: "b''")
PyStr(x) == IF x.kind = "bytes" THEN "b''" ELSE LdapSid_repr(x)

\* bytes an LDAP_SID occupies: 8 fixed bytes and 4 per sub-authority
SidSize(sid) == 8 + 4 * sid.SubAuthorityCount

----------------------------------------------------------------------------
(* GUIDs: impacket's string_to_bin / bin_to_string and str.lower            *)
(* text form  g1g2-g3-g4-g5-g6g7g8, each g a group of four hex digits;      *)
(* binary form: the first three fields little-endian, the rest big-endian   *)

Lo(g) == g % 256
Hi(g) == g \div 256

RECURSIVE HasLetter(_)
HasLetter(g) == IF g = 0 THEN FALSE ELSE (g % 16 >= 10) \/ HasLetter(g \div 16)

\* a GUID written in lower case in the source text
GuidText(g1, g2, g3, g4, g5, g6, g7, g8) ==
    [groups |-> <<g1, g2, g3, g4, g5, g6, g7, g8>>, upper |-> FALSE]

string_to_bin(text) ==
    LET g == text.groups
    IN  << Lo(g[2]), Hi(g[2]), Lo(g[1]), Hi(g[1]),
           Lo(g[3]), Hi(g[3]),
           Lo(g[4]), Hi(g[4]),
           Hi(g[5]), Lo(g[5]),
           Hi(g[6]), Lo(g[6]),
           Hi(g[7]), Lo(g[7]), Hi(g[8]), Lo(g[8]) >>

\* '%08X-%04X-%04X-%04X-%04X%08X': upper-case hex digits
bin_to_string(b) ==
    LET g == << b[4] * 256 + b[3], b[2] * 256 + b[1],
                b[6] * 256 + b[5],
                b[8] * 256 + b[7],
                b[9] * 256 + b[10],
                b[11] * 256 + b[12],
                b[13] * 256 + b[14], b[15] * 256 + b[16] >>
    IN  [groups |-> g, upper |-> \E i \in 1..8 : HasLetter(g[i])]

\* str.lower()
lower(text) == [text EXCEPT !.upper = FALSE]

EXTRIGHTS_GUID_MAPPING ==
    [ GetChanges |->
        string_to_bin(GuidText(\h1131, \hf6aa, \h9c07, \h11d1, \hf79f, \h00c0, \h4fc2, \hdcd2)),
      GetChangesAll |->
        string_to_bin(GuidText(\h1131, \hf6ad, \h9c07, \h11d1, \hf79f, \h00c0, \h4fc2, \hdcd2)),
      WriteMember |->
        string_to_bin(GuidText(\hbf96, \h79c0, \h0de6, \h11d0, \ha285, \h00aa, \h0030, \h49e2)),
      UserForceChangePassword |->
        string_to_bin(GuidText(\h0029, \h9570, \h246d, \h11d0, \ha768, \h00aa, \h006e, \h0529)) ]

OBJECTTYPE_GUID_MAP ==
    [ group |-> GuidText(\hbf96, \h7a9c, \h0de6, \h11d0, \ha285, \h00aa, \h0030, \h49e2),
      domain |-> GuidText(\h1919, \h5a5a, \h6da0, \h11d0, \hafd3, \h00c0, \h4fd9, \h30c9),
      organizationalUnit |->
                 GuidText(\hbf96, \h7aa5, \h0de6, \h11d0, \ha285, \h00aa, \h0030, \h49e2),
      user |-> GuidText(\hbf96, \h7aba, \h0de6, \h11d0, \ha285, \h00aa, \h0030, \h49e2),
      groupPolicyContainer |->
                 GuidText(\hf30e, \h3bc2, \h9ff0, \h11d1, \hb603, \h0000, \hf803, \h67c1) ]

----------------------------------------------------------------------------
(* Helpers of the rights evaluation *)

\* ace_applies whose KeyError handler lets the ACE apply
ace_applies_UnknownApplies(ace_guid, object_class) ==
    IF object_class \notin DOMAIN OBJECTTYPE_GUID_MAP THEN TRUE
    ELSE ace_guid = OBJECTTYPE_GUID_MAP[object_class]

\* ace_applies: the KeyError of an unknown class is caught and gives False
ace_applies(ace_guid, object_class) ==
    IF object_class \notin DOMAIN OBJECTTYPE_GUID_MAP THEN FALSE
    ELSE ace_guid = OBJECTTYPE_GUID_MAP[object_class]

build_relation(sid, relation, acetype) ==
    [rightname |-> relation, sid |-> sid, acetype |-> acetype]

\* ACCESS_ALLOWED_OBJECT_ACE.get_object_type: None without the presence flag
get_object_type(acedata) ==
    IF OBJECT_ACE_has_flag(acedata, ACE_OBJECT_TYPE_PRESENT)
    THEN bin_to_string(acedata.data.ObjectType)
    ELSE None

\* ACCESS_ALLOWED_OBJECT_ACE.get_inherited_object_type: None without the flag
get_inherited_object_type(acedata) ==
    IF OBJECT_ACE_has_flag(acedata, ACE_INHERITED_OBJECT_TYPE_PRESENT)
    THEN bin_to_string(acedata.data.InheritedObjectType)
    ELSE None

can_write_property(ace_object, binproperty) ==
    IF ~has_priv(ace_object.acedata.mask, ADS_RIGHT_DS_WRITE_PROP) THEN FALSE
    ELSE IF ~OBJECT_ACE_has_flag(ace_object.acedata, ACE_OBJECT_TYPE_PRESENT) THEN TRUE
    ELSE ace_object.acedata.data.ObjectType = binproperty

has_extended_right(ace_object, binrightguid) ==
    IF ~has_priv(ace_object.acedata.mask, ADS_RIGHT_DS_CONTROL_ACCESS) THEN FALSE
    ELSE IF ~OBJECT_ACE_has_flag(ace_object.acedata, ACE_OBJECT_TYPE_PRESENT) THEN TRUE
    ELSE ace_object.acedata.data.ObjectType = binrightguid

ignoresids == {"S-1-3-0", "S-1-5-18"}

----------------------------------------------------------------------------
(* Wire records: what the byte buffer holds, with the sizes it declares *)

\* struct ACE around struct ACCESS_ALLOWED_ACE (types 0x00 and 0x01)
PlainWire(type, aceflags, mask, sid) ==
    [AceType |-> type, AceFlags |-> aceflags, AceSize |-> 4 + 4 + SidSize(sid),
     Data |-> [Mask |-> mask, Sid |-> sid]]

\* struct ACE around struct ACCESS_ALLOWED_OBJECT_ACE (types 0x05 and 0x06):
\* ObjectType holds (Flags & 1) * 16 bytes, InheritedObjectType (Flags & 2) * 8
ObjectWire(type, aceflags, mask, flags, objecttype, inheritedobjecttype, sid) ==
    [AceType |-> type, AceFlags |-> aceflags,
     AceSize |-> 4 + 8 + BitAnd(flags, 1) * 16 + BitAnd(flags, 2) * 8 + SidSize(sid),
     Data |-> [Mask |-> mask, Flags |-> flags,
               ObjectType |-> IF BitAnd(flags, 1) = 1 THEN objecttype ELSE <<>>,
               InheritedObjectType |->
                   IF BitAnd(flags, 2) = 2 THEN inheritedobjecttype ELSE <<>>,
               Sid |-> sid]]

\* struct ACE of any other type: n bytes of Data nobody interprets
OtherWire(type, aceflags, n) ==
    [AceType |-> type, AceFlags |-> aceflags, AceSize |-> 4 + n,
     Data |-> [Opaque |-> n]]

RECURSIVE SumAceSize(_)
SumAceSize(aces) ==
    IF Len(aces) = 0 THEN 0 ELSE aces[1].AceSize + SumAceSize(Tail(aces))

\* struct ACL: an 8-byte header and a tail of AclSize - 8 bytes holding aces
AclWire(aces, acecount) ==
    [AclSize |-> 8 + SumAceSize(aces), AceCount |-> acecount, Data |-> aces]

\* bytes a record of the descriptor occupies; b'' stands for an absent one
WireSize(x) ==
    IF x = EmptyBytes THEN 0
    ELSE IF "AclSize" \in DOMAIN x THEN x.AclSize
    ELSE SidSize(x)

\* struct SECURITY_DESCRIPTOR and the records its offsets point to: the
\* 20-byte header, then owner, group, SACL and DACL, each one present or
\* absent; an absent record has offset 0
DescriptorWire(owner, group, sacl, dacl) ==
    LET at_group == 20 + WireSize(owner)
        at_sacl == at_group + WireSize(group)
        at_dacl == at_sacl + WireSize(sacl)
    IN  [kind |-> "descriptor",
         OffsetOwner |-> IF owner = EmptyBytes THEN 0 ELSE 20,
         OffsetGroup |-> IF group = EmptyBytes THEN 0 ELSE at_group,
         OffsetSacl |-> IF sacl = EmptyBytes THEN 0 ELSE at_sacl,
         OffsetDacl |-> IF dacl = EmptyBytes THEN 0 ELSE at_dacl,
         Owner |-> owner, Group |-> group, Sacl |-> sacl, Dacl |-> dacl]

\* acl is None or b''
NoDescriptor == [kind |-> "empty"]

----------------------------------------------------------------------------
(* Decoding *)

\* a read of need bytes from a stream holding avail more bytes succeeds
\* only when the bytes are there; otherwise the decoder fails
ReadOk(need, avail) == need <= avail

\* ACCESS_ALLOWED_ACE.__init__ (ACCESS_DENIED_ACE inherits it)
ACCESS_ALLOWED_ACE_init(data) ==
    [kind |-> "ACCESS_ALLOWED_ACE",
     data |-> [Mask |-> data.Mask],
     sid |-> data.Sid,
     mask |-> data.Mask]

\* ACCESS_ALLOWED_OBJECT_ACE.__init__ (ACCESS_DENIED_OBJECT_ACE inherits it)
ACCESS_ALLOWED_OBJECT_ACE_init(data) ==
    [kind |-> "ACCESS_ALLOWED_OBJECT_ACE",
     data |-> [Mask |-> data.Mask, Flags |-> data.Flags,
               ObjectType |-> data.ObjectType,
               InheritedObjectType |-> data.InheritedObjectType],
     sid |-> data.Sid,
     mask |-> data.Mask]

\* ACE.__init__: the header, then a typed body for the four supported types
ACE_init(w) ==
    [ace |-> [AceType |-> w.AceType, AceFlags |-> w.AceFlags, AceSize |-> w.AceSize],
     acedata |->
        IF w.AceType = 0 THEN ACCESS_ALLOWED_ACE_init(w.Data)
        ELSE IF w.AceType = 5 THEN ACCESS_ALLOWED_OBJECT_ACE_init(w.Data)
        ELSE IF w.AceType = 1 THEN ACCESS_ALLOWED_ACE_init(w.Data)
        ELSE IF w.AceType = 6 THEN ACCESS_ALLOWED_OBJECT_ACE_init(w.Data)
        ELSE None]

\* ACL.__init__, the loop "for i in range(AceCount)": the i-th ACE is read
\* at pos of the tail; ok is FALSE once a read runs past the tail
RECURSIVE ReadAces(_, _, _, _)
ReadAces(acl_w, i, pos, acc) ==
    IF i > acl_w.AceCount THEN [ok |-> TRUE, aces |-> acc]
    ELSE IF ~ReadOk(4, (acl_w.AclSize - 8) - pos) THEN [ok |-> FALSE, aces |-> acc]
    ELSE IF ~ReadOk(acl_w.Data[i].AceSize, (acl_w.AclSize - 8) - pos)
         THEN [ok |-> FALSE, aces |-> acc]
    ELSE ReadAces(acl_w, i + 1, pos + acl_w.Data[i].AceSize,
                  Append(acc, ACE_init(acl_w.Data[i])))

ACL_init(acl_w) ==
    LET r == ReadAces(acl_w, 1, 0, <<>>)
    IN  [ok |-> r.ok, acl |-> [kind |-> "ACL", aces |-> r.aces]]

\* SecurityDescriptor.__init__ that keeps the ACEs read before the failure
SecurityDescriptor_init_Swallow(d) ==
    LET sacl == IF d.OffsetSacl # 0 THEN ACL_init(d.Sacl)
                ELSE [ok |-> TRUE, acl |-> EmptyBytes]
        dacl == IF d.OffsetDacl # 0 THEN ACL_init(d.Dacl)
                ELSE [ok |-> TRUE, acl |-> EmptyBytes]
    IN  [ok |-> TRUE,
         sd |-> [owner_sid |-> IF d.OffsetOwner # 0 THEN d.Owner ELSE EmptyBytes,
                 group_sid |-> IF d.OffsetGroup # 0 THEN d.Group ELSE EmptyBytes,
                 sacl |-> sacl.acl,
                 dacl |-> dacl.acl]]

\* SecurityDescriptor.__init__: owner, group, SACL and DACL are decoded in
\* this order, each only when its offset is not 0; an offset of 0 leaves
\* b'' in the field, and a failed read of the SACL or the DACL fails it all
SecurityDescriptor_init(d) ==
    LET sacl == IF d.OffsetSacl # 0 THEN ACL_init(d.Sacl)
                ELSE [ok |-> TRUE, acl |-> EmptyBytes]
        dacl == IF d.OffsetDacl # 0 THEN ACL_init(d.Dacl)
                ELSE [ok |-> TRUE, acl |-> EmptyBytes]
    IN  [ok |-> sacl.ok /\ dacl.ok,
         sd |-> [owner_sid |-> IF d.OffsetOwner # 0 THEN d.Owner ELSE EmptyBytes,
                 group_sid |-> IF d.OffsetGroup # 0 THEN d.Group ELSE EmptyBytes,
                 sacl |-> sacl.acl,
                 dacl |-> dacl.acl]]

----------------------------------------------------------------------------
(* parse_binary_acl: the body of the loop over sd.dacl.aces *)

\* lines 88-152: an ACCESS_ALLOWED_OBJECT_ACE whose sid is not ignored
ObjectAceRelations(ace_object, sid, etype) ==
    LET acedata == ace_object.acedata
        mask == acedata.mask
        otpresent == OBJECT_ACE_has_flag(acedata, ACE_OBJECT_TYPE_PRESENT)
        coarse == \/ has_priv(mask, GENERIC_ALL) \/ has_priv(mask, WRITE_DACL)
                  \/ has_priv(mask, WRITE_OWNER) \/ has_priv(mask, GENERIC_WRITE)
        genericwrite ==
            IF coarse /\ has_priv(mask, GENERIC_WRITE)
            THEN <<build_relation(sid, "GenericWrite", "")>> ELSE <<>>
        writedacl ==
            IF coarse /\ has_priv(mask, WRITE_DACL)
            THEN <<build_relation(sid, "WriteDacl", "")>> ELSE <<>>
        writeowner ==
            IF coarse /\ has_priv(mask, WRITE_OWNER)
            THEN <<build_relation(sid, "WriteOwner", "")>> ELSE <<>>
        writeprivs == has_priv(mask, ADS_RIGHT_DS_WRITE_PROP)
        propgw ==
            IF writeprivs /\ etype \in {"user", "group"} /\ ~otpresent
            THEN <<build_relation(sid, "GenericWrite", "")>> ELSE <<>>
        addmember ==
            IF writeprivs /\ etype = "group"
               /\ can_write_property(ace_object, EXTRIGHTS_GUID_MAPPING.WriteMember)
            THEN <<build_relation(sid, "WriteProperty", "AddMember")>> ELSE <<>>
        control_access == has_priv(mask, ADS_RIGHT_DS_CONTROL_ACCESS)
        extall ==
            IF control_access /\ etype \in {"user", "domain"} /\ ~otpresent
            THEN <<build_relation(sid, "ExtendedRight", "All")>> ELSE <<>>
        getchanges ==
            IF control_access /\ etype = "domain"
               /\ has_extended_right(ace_object, EXTRIGHTS_GUID_MAPPING.GetChanges)
            THEN <<build_relation(sid, "ExtendedRight", "GetChanges")>> ELSE <<>>
        getchangesall ==
            IF control_access /\ etype = "domain"
               /\ has_extended_right(ace_object, EXTRIGHTS_GUID_MAPPING.GetChangesAll)
            THEN <<build_relation(sid, "ExtendedRight", "GetChangesAll")>> ELSE <<>>
        forcepw ==
            IF control_access /\ etype = "user"
               /\ has_extended_right(ace_object,
                                     EXTRIGHTS_GUID_MAPPING.UserForceChangePassword)
            THEN <<build_relation(sid, "ExtendedRight", "User-Force-Change-Password")>>
            ELSE <<>>
    IN  IF ~ACE_has_flag(ace_object, INHERITED_ACE)
           /\ ACE_has_flag(ace_object, INHERIT_ONLY_ACE)
        THEN <<>>
        ELSE IF /\ ACE_has_flag(ace_object, INHERITED_ACE)
                /\ OBJECT_ACE_has_flag(acedata, ACE_INHERITED_OBJECT_TYPE_PRESENT)
                /\ ~ace_applies(lower(get_inherited_object_type(acedata)), etype)
        THEN <<>>
        ELSE IF coarse /\ otpresent
                /\ ~ace_applies(lower(get_object_type(acedata)), etype)
        THEN <<>>
        ELSE IF coarse /\ has_priv(mask, GENERIC_ALL)
        THEN <<build_relation(sid, "GenericAll", "")>>
        ELSE IF coarse /\ has_priv(mask, GENERIC_WRITE) /\ etype # "domain"
        THEN genericwrite
        ELSE genericwrite \o writedacl \o writeowner
             \o propgw \o addmember
             \o extall \o getchanges \o getchangesall \o forcepw

\* PlainAceRelations without the "continue" that follows GenericAll
PlainAceRelations_NoStop(ace_object, sid, etype) ==
    LET mask == ace_object.acedata.mask
    IN  (IF has_priv(mask, GENERIC_ALL)
         THEN <<build_relation(sid, "GenericAll", "")>> ELSE <<>>)
      \o (IF has_priv(mask, GENERIC_WRITE)
          THEN <<build_relation(sid, "GenericWrite", "")>> ELSE <<>>)
      \o (IF has_priv(mask, WRITE_OWNER)
          THEN <<build_relation(sid, "WriteOwner", "")>> ELSE <<>>)
      \o (IF etype \in {"user", "domain"}
             /\ has_priv(mask, ADS_RIGHT_DS_CONTROL_ACCESS)
          THEN <<build_relation(sid, "ExtendedRight", "All")>> ELSE <<>>)
      \o (IF has_priv(mask, WRITE_DACL)
          THEN <<build_relation(sid, "WriteDacl", "")>> ELSE <<>>)

\* lines 155-175: an ACCESS_ALLOWED_ACE whose sid is not ignored
PlainAceRelations(ace_object, sid, etype) ==
    LET mask == ace_object.acedata.mask
    IN  IF has_priv(mask, GENERIC_ALL)
        THEN <<build_relation(sid, "GenericAll", "")>>
        ELSE (IF has_priv(mask, GENERIC_WRITE)
              THEN <<build_relation(sid, "GenericWrite", "")>> ELSE <<>>)
          \o (IF has_priv(mask, WRITE_OWNER)
              THEN <<build_relation(sid, "WriteOwner", "")>> ELSE <<>>)
          \o (IF etype \in {"user", "domain"}
                 /\ has_priv(mask, ADS_RIGHT_DS_CONTROL_ACCESS)
              THEN <<build_relation(sid, "ExtendedRight", "All")>> ELSE <<>>)
          \o (IF has_priv(mask, WRITE_DACL)
              THEN <<build_relation(sid, "WriteDacl", "")>> ELSE <<>>)

\* AceRelations that evaluates the deny types 0x01 and 0x06 as well
AceRelations_DenyToo(ace_object, etype) ==
    IF ace_object.ace.AceType \notin {0, 1, 5, 6} THEN <<>>
    ELSE LET sid == PyStr(ace_object.acedata.sid)
         IN  IF sid \in ignoresids THEN <<>>
             ELSE IF ace_object.ace.AceType \in {5, 6}
                  THEN ObjectAceRelations(ace_object, sid, etype)
                  ELSE PlainAceRelations(ace_object, sid, etype)

\* AceRelations without the test of the subject SID against ignoresids
AceRelations_NoSidCheck(ace_object, etype) ==
    IF ace_object.ace.AceType # 5 /\ ace_object.ace.AceType # 0 THEN <<>>
    ELSE LET sid == PyStr(ace_object.acedata.sid)
         IN  IF ace_object.ace.AceType = 5
             THEN ObjectAceRelations(ace_object, sid, etype)
             ELSE PlainAceRelations(ace_object, sid, etype)

\* lines 79-175: what one iteration of the loop appends to relations
AceRelations(ace_object, etype) ==
    IF ace_object.ace.AceType # 5 /\ ace_object.ace.AceType # 0 THEN <<>>
    ELSE LET sid == PyStr(ace_object.acedata.sid)
         IN  IF sid \in ignoresids THEN <<>>
             ELSE IF ace_object.ace.AceType = 5
                  THEN ObjectAceRelations(ace_object, sid, etype)
                  ELSE PlainAceRelations(ace_object, sid, etype)

\* lines 73-77: the owner edge
OwnerRelations(descriptor) ==
    LET osid == PyStr(descriptor.owner_sid)
    IN  IF osid \notin ignoresids THEN <<build_relation(osid, "Owner", "")>> ELSE <<>>

----------------------------------------------------------------------------
(* Inputs: the entry classes and the descriptors the model is run on *)

EntryTypes == {"user", "group", "domain", "organizationalUnit",
               "groupPolicyContainer", "unknown"}

NtAuthority == <<0, 0, 0, 0, 0, 5>>
CreatorAuthority == <<0, 0, 0, 0, 0, 3>>

SidCreatorOwner == LdapSid(1, CreatorAuthority, <<0>>)       \* S-1-3-0
SidLocalSystem == LdapSid(1, NtAuthority, <<18>>)            \* S-1-5-18
SidAuthUsers == LdapSid(1, NtAuthority, <<11>>)              \* S-1-5-11
SidAdmin == LdapSid(1, NtAuthority, <<21, 1, 2, 3, 500>>)    \* S-1-5-21-1-2-3-500

OwnerSids == {SidCreatorOwner, SidLocalSystem, SidAdmin}
SubjectSids == {SidCreatorOwner, SidLocalSystem, SidAuthUsers}

\* masks made of several rights (the rights share no bit but READ_CONTROL,
\* which GENERIC_WRITE holds already, so the sums below are bitwise ors)
MaskWriteAll == GENERIC_WRITE + WRITE_DACL + WRITE_OWNER
MaskControlWrite == ADS_RIGHT_DS_CONTROL_ACCESS + ADS_RIGHT_DS_WRITE_PROP
MaskControlDacl == ADS_RIGHT_DS_CONTROL_ACCESS + WRITE_DACL
\* every standard right of GENERIC_ALL and none of its directory-service
\* rights: neither GENERIC_ALL nor GENERIC_WRITE on an exact match
MaskStandard == WRITE_OWNER + WRITE_DACL + READ_CONTROL + DELETE

Masks == {GENERIC_ALL, GENERIC_WRITE, MaskWriteAll, WRITE_DACL,
          ADS_RIGHT_DS_CONTROL_ACCESS, MaskControlWrite, MaskControlDacl, MaskStandard}

AceFlagSets == {0, INHERIT_ONLY_ACE, INHERITED_ACE, INHERITED_ACE + INHERIT_ONLY_ACE}

ClassGuid(c) == string_to_bin(OBJECTTYPE_GUID_MAP[c])

ObjectTypes == {EXTRIGHTS_GUID_MAPPING.GetChanges, EXTRIGHTS_GUID_MAPPING.GetChangesAll,
                EXTRIGHTS_GUID_MAPPING.WriteMember,
                EXTRIGHTS_GUID_MAPPING.UserForceChangePassword,
                ClassGuid("domain"), ClassGuid("user")}
InheritedObjectTypes == {ClassGuid("domain"), ClassGuid("user")}

\* presence flags with the GUIDs they announce
ObjectForms ==
    {<<0, <<>>, <<>>>>}
    \cup {<<1, ot, <<>>>> : ot \in ObjectTypes}
    \cup {<<2, <<>>, iot>> : iot \in InheritedObjectTypes}
    \cup {<<3, ot, iot>> : ot \in {EXTRIGHTS_GUID_MAPPING.GetChanges, ClassGuid("domain")},
                           iot \in InheritedObjectTypes}

PlainAllowAces ==
    {PlainWire(0, af, m, s) : af \in {0, INHERIT_ONLY_ACE}, m \in Masks, s \in SubjectSids}
ObjectAllowAces ==
    {ObjectWire(5, af, m, f[1], f[2], f[3], s) :
        af \in AceFlagSets, m \in Masks, f \in ObjectForms, s \in SubjectSids}
\* deny ACEs (0x01, 0x06) and a type without a typed body (0x02, an audit ACE)
SkippedAces ==
    {PlainWire(1, 0, GENERIC_ALL, SidAuthUsers),
     ObjectWire(6, 0, GENERIC_ALL, 0, <<>>, <<>>, SidAuthUsers),
     OtherWire(2, 0, 16)}

AceInputs == PlainAllowAces \cup ObjectAllowAces \cup SkippedAces

\* the ACEs that DACLs of more than one ACE are built from
CoreAces ==
    SkippedAces
    \cup {PlainWire(0, 0, m, SidAuthUsers) : m \in {GENERIC_ALL, MaskWriteAll}}
    \cup {PlainWire(0, 0, GENERIC_ALL, SidLocalSystem)}
    \cup {ObjectWire(5, 0, GENERIC_ALL, 0, <<>>, <<>>, SidCreatorOwner)}
    \cup {ObjectWire(5, af, MaskControlWrite, 0, <<>>, <<>>, SidAuthUsers) :
            af \in {0, INHERIT_ONLY_ACE}}
    \cup {ObjectWire(5, 0, ADS_RIGHT_DS_CONTROL_ACCESS, 1,
                     EXTRIGHTS_GUID_MAPPING.GetChanges, <<>>, SidAuthUsers)}
    \cup {ObjectWire(5, INHERITED_ACE, MaskWriteAll, 2,
                     <<>>, ClassGuid("user"), SidAuthUsers)}

SeqsUpTo(S, n) == UNION {[1..k -> S] : k \in 0..n}

DaclAces == {<<a>> : a \in AceInputs} \cup SeqsUpTo(CoreAces, MaxAces)

\* AceCount is read from the buffer: it may be less than, equal to or one
\* more than the number of ACEs the tail holds
DaclInputs ==
    UNION {{AclWire(aces, n) : n \in 0..(Len(aces) + 1)} : aces \in DaclAces}

SidBuiltinAdmins == LdapSid(1, NtAuthority, <<32, 544>>)      \* S-1-5-32-544
GroupSids == {SidBuiltinAdmins, SidLocalSystem}

\* SACLs: empty, one audit ACE (type 0x02), and one declaring an ACE more
\* than its tail holds
SaclInputs ==
    {AclWire(<<>>, 0),
     AclWire(<<OtherWire(2, 0, 16)>>, 1),
     AclWire(<<OtherWire(2, 0, 16)>>, 2)}

\* the DACLs that descriptors with a group or a SACL carry
CoreDacls ==
    {AclWire(<<a>>, 1) : a \in CoreAces}
    \cup {AclWire(<<PlainWire(0, 0, GENERIC_ALL, SidAuthUsers)>>, 2)}

\* descriptors with a group SID, a SACL or both
GroupSaclInputs ==
    {DescriptorWire(o, g, s, d) :
        o \in {EmptyBytes, SidAdmin},
        g \in GroupSids \cup {EmptyBytes},
        s \in SaclInputs \cup {EmptyBytes},
        d \in CoreDacls \cup {EmptyBytes}}

AclInputs ==
    {NoDescriptor}
    \cup {DescriptorWire(o, EmptyBytes, EmptyBytes, d) :
            o \in OwnerSids \cup {EmptyBytes}, d \in DaclInputs \cup {EmptyBytes}}
    \cup GroupSaclInputs

----------------------------------------------------------------------------
(* parse_binary_acl as a state machine *)

NoSd == [owner_sid |-> EmptyBytes, group_sid |-> EmptyBytes,
         sacl |-> EmptyBytes, dacl |-> EmptyBytes]
NoResult == [returned |-> FALSE, relations |-> <<>>]

Init ==
    /\ entrytype \in EntryTypes
    /\ acl \in AclInputs
    /\ pc = "call"
    /\ sd = NoSd
    /\ relations = <<>>
    /\ idx = 0
    /\ emitted = <<>>
    /\ result = NoResult
    /\ raised = ""
    /\ access_mask = None
    /\ calls = <<>>

\* lines 68-69: "if not acl: return entry, []"
ReturnEmpty ==
    /\ pc = "call"
    /\ acl.kind = "empty"
    /\ result' = [returned |-> TRUE, relations |-> <<>>]
    /\ pc' = "returned"
    /\ UNCHANGED <<entrytype, acl, sd, relations, idx, emitted, raised>>
    /\ UNCHANGED maskvars

\* line 70, the descriptor decodes
Construct ==
    /\ pc = "call"
    /\ acl.kind # "empty"
    /\ SecurityDescriptor_init(acl).ok
    /\ sd' = SecurityDescriptor_init(acl).sd
    /\ pc' = "owner"
    /\ UNCHANGED <<entrytype, acl, relations, idx, emitted, result, raised>>
    /\ UNCHANGED maskvars

\* line 70, the decoder raises: parse_binary_acl is left with the exception
ConstructRaises ==
    /\ pc = "call"
    /\ acl.kind # "empty"
    /\ ~SecurityDescriptor_init(acl).ok
    /\ raised' = "MalformedDescriptor"
    /\ pc' = "raised"
    /\ UNCHANGED <<entrytype, acl, sd, relations, idx, emitted, result>>
    /\ UNCHANGED maskvars

\* lines 71-77
Owner ==
    /\ pc = "owner"
    /\ relations' = OwnerRelations(sd)
    /\ pc' = "loop"
    /\ UNCHANGED <<entrytype, acl, sd, idx, emitted, result, raised>>
    /\ UNCHANGED maskvars

\* line 78 with sd.dacl = b'': bytes has no attribute aces
LoopRaises ==
    /\ pc = "loop"
    /\ sd.dacl.kind = "bytes"
    /\ raised' = "AttributeError"
    /\ pc' = "raised"
    /\ UNCHANGED <<entrytype, acl, sd, relations, idx, emitted, result>>
    /\ UNCHANGED maskvars

\* lines 78-175: one iteration of the loop
LoopAce ==
    /\ pc = "loop"
    /\ sd.dacl.kind = "ACL"
    /\ idx < Len(sd.dacl.aces)
    /\ emitted' = AceRelations(sd.dacl.aces[idx + 1], entrytype)
    /\ relations' = relations \o emitted'
    /\ idx' = idx + 1
    /\ UNCHANGED <<entrytype, acl, pc, sd, result, raised>>
    /\ UNCHANGED maskvars

\* line 179
Return ==
    /\ pc = "loop"
    /\ sd.dacl.kind = "ACL"
    /\ idx = Len(sd.dacl.aces)
    /\ result' = [returned |-> TRUE, relations |-> relations]
    /\ pc' = "returned"
    /\ UNCHANGED <<entrytype, acl, sd, relations, idx, emitted, raised>>
    /\ UNCHANGED maskvars

Next ==
    \/ ReturnEmpty
    \/ Construct
    \/ ConstructRaises
    \/ Owner
    \/ LoopRaises
    \/ LoopAce
    \/ Return

Spec == Init /\ [][Next]_vars

----------------------------------------------------------------------------
(* An ACCESS_MASK object on its own: construction, set_priv, remove_priv *)

\* rights passed as priv: named constants of ACCESS_MASK, and 0
Privs ==
    {0, GENERIC_READ, GENERIC_WRITE, GENERIC_ALL, ACCESS_SYSTEM_SECURITY,
     SYNCHRONIZE, WRITE_OWNER, WRITE_DACL, ADS_RIGHT_DS_CONTROL_ACCESS,
     ADS_RIGHT_DS_WRITE_PROP}

\* masks an ACCESS_MASK is constructed with: no right, one right, two rights
\* together, and every bit from 0 to 30
StartMasks == {BitOr(p, q) : p, q \in Privs} \cup {\h7FFFFFFF}

\* state after ACCESS_MASK(mask); parse_binary_acl is not running
MaskInit ==
    /\ access_mask \in {ACCESS_MASK_init(m) : m \in StartMasks}
    /\ calls = <<>>
    /\ entrytype = None
    /\ acl = None
    /\ pc = "idle"
    /\ sd = NoSd
    /\ relations = <<>>
    /\ idx = 0
    /\ emitted = <<>>
    /\ result = NoResult
    /\ raised = ""

\* lines 462-463
SetPriv ==
    /\ Len(calls) < MaxCalls
    /\ \E priv \in Privs :
        /\ access_mask' = set_priv(access_mask, priv)
        /\ calls' = Append(calls, [op |-> "set_priv", priv |-> priv,
                                   before |-> access_mask.mask])
    /\ UNCHANGED parsevars

\* lines 465-466
RemovePriv ==
    /\ Len(calls) < MaxCalls
    /\ \E priv \in Privs :
        /\ access_mask' = remove_priv(access_mask, priv)
        /\ calls' = Append(calls, [op |-> "remove_priv", priv |-> priv,
                                   before |-> access_mask.mask])
    /\ UNCHANGED parsevars

MaskNext ==
    \/ SetPriv
    \/ RemovePriv

MaskSpec == MaskInit /\ [][MaskNext]_vars

----------------------------------------------------------------------------
(* Vocabulary of the properties *)

\* the loop has taken at least one ACE; CurAce is the one it took last and
\* emitted is what that iteration appended
Walked == pc \in {"loop", "returned"} /\ sd.dacl.kind = "ACL" /\ idx >= 1
CurAce == sd.dacl.aces[idx]
CurSid == PyStr(CurAce.acedata.sid)

Edge(sid, name) == [rightname |-> name, sid |-> sid, acetype |-> ""]
Ext(sid, right) == [rightname |-> "ExtendedRight", sid |-> sid, acetype |-> right]

Range(seq) == {seq[i] : i \in 1..Len(seq)}
RightNames(seq) == {seq[i].rightname : i \in 1..Len(seq)}

IgnoredNames == {"S-1-3-0", "S-1-5-18"}

\* every bit of bits is set in x
HasBits(x, bits) == BitAnd(x, bits) = bits

\* the ACE taken last is an inherited object ACE whose InheritedObjectType
\* is present and is not the schema GUID of the entry's class
OtherClass ==
    /\ CurAce.ace.AceType = 5
    /\ HasBits(CurAce.ace.AceFlags, 16)
    /\ HasBits(CurAce.acedata.data.Flags, 2)
    /\ \/ entrytype \notin DOMAIN OBJECTTYPE_GUID_MAP
       \/ CurAce.acedata.data.InheritedObjectType
            # string_to_bin(OBJECTTYPE_GUID_MAP[entrytype])

\* an ACL declares more ACEs than its tail holds
AclOverrun(w) ==
    IF w.AceCount > Len(w.Data) THEN TRUE
    ELSE SumAceSize(SubSeq(w.Data, 1, w.AceCount)) > w.AclSize - 8

\* the DACL declares more ACEs than its tail holds
Overrun == acl.kind = "descriptor" /\ acl.OffsetDacl # 0 /\ AclOverrun(acl.Dacl)

\* the SACL declares more ACEs than its tail holds
SaclOverrun == acl.kind = "descriptor" /\ acl.OffsetSacl # 0 /\ AclOverrun(acl.Sacl)

\* the mask of the ACE taken last holds one of the four coarse rights, on
\* an exact match of bits
CoarseMask ==
    \/ HasBits(CurAce.acedata.mask, GENERIC_ALL)
    \/ HasBits(CurAce.acedata.mask, WRITE_DACL)
    \/ HasBits(CurAce.acedata.mask, WRITE_OWNER)
    \/ HasBits(CurAce.acedata.mask, GENERIC_WRITE)

----------------------------------------------------------------------------
(* C1 *)

\* C1: GenericAll exclusivity. Whenever the iteration over an evaluated ACE
\* (type 0x00 or 0x05) appended a GenericAll edge, that edge is all it
\* appended: no other edge comes from the same ACE.
C1_GenericAllExclusive ==
    (Walked /\ "GenericAll" \in RightNames(emitted))
        => emitted = <<Edge(CurSid, "GenericAll")>>

\* an object ACE on a domain whose mask is GENERIC_ALL, which contains the
\* bits of every other right, has appended GenericAll alone
C1_Witness ==
    /\ Walked
    /\ entrytype = "domain"
    /\ CurAce.ace.AceType = 5
    /\ CurAce.acedata.mask = GENERIC_ALL
    /\ HasBits(CurAce.acedata.mask, WRITE_DACL)
    /\ HasBits(CurAce.acedata.mask, ADS_RIGHT_DS_CONTROL_ACCESS)
    /\ emitted = <<Edge("S-1-5-11", "GenericAll")>>

----------------------------------------------------------------------------
(* C2 *)

\* C2: no edge names an ignored SID. In every state, neither the list under
\* construction nor the list returned holds an edge whose sid is S-1-3-0 or
\* S-1-5-18, whether that SID is the owner or the subject of an ACE.
C2_NoIgnoredSid ==
    /\ \A e \in Range(relations) : e.sid \notin IgnoredNames
    /\ \A e \in Range(result.relations) : e.sid \notin IgnoredNames

\* a descriptor owned by Local System whose only ACE grants GENERIC_ALL to
\* Creator Owner has been evaluated and returned no edge
C2_Witness ==
    /\ pc = "returned"
    /\ acl.kind = "descriptor"
    /\ acl.OffsetOwner # 0
    /\ PyStr(sd.owner_sid) = "S-1-5-18"
    /\ idx = 1
    /\ CurAce.ace.AceType = 5
    /\ CurSid = "S-1-3-0"
    /\ CurAce.acedata.mask = GENERIC_ALL
    /\ result = [returned |-> TRUE, relations |-> <<>>]

----------------------------------------------------------------------------
(* C3 *)

\* the three edges of GENERIC_WRITE | WRITE_DACL | WRITE_OWNER
ThreeWriteEdges(sid) ==
    {Edge(sid, "GenericWrite"), Edge(sid, "WriteDacl"), Edge(sid, "WriteOwner")}

\* the ACE the claim speaks of: an allow ACE, plain or object without
\* ObjectType, not inherit-only, subject not ignored, mask exactly the three
C3_Case ==
    /\ Walked
    /\ \/ CurAce.ace.AceType = 0
       \/ /\ CurAce.ace.AceType = 5
          /\ ~HasBits(CurAce.acedata.data.Flags, 1)
    /\ ~HasBits(CurAce.ace.AceFlags, 8)
    /\ CurSid \notin IgnoredNames
    /\ CurAce.acedata.mask = MaskWriteAll

\* C3 as claimed: such an ACE gives exactly GenericWrite, WriteDacl and
\* WriteOwner on a domain and only GenericWrite on a user, plain or object
\* (read in the claim's favour: ACEs restricted to another class left out).
C3_AsClaimed ==
    (C3_Case /\ ~OtherClass) =>
        /\ entrytype = "domain"
            => Len(emitted) = 3 /\ Range(emitted) = ThreeWriteEdges(CurSid)
        /\ entrytype = "user" => emitted = <<Edge(CurSid, "GenericWrite")>>

\* C3 amended: the early stop belongs to the object ACE only. An object ACE
\* of the claim's case that is not an inherited ACE restricted to another
\* class gives the three edges on a domain and GenericWrite alone on a user;
\* a plain ACE gives the three edges GenericWrite, WriteOwner, WriteDacl for
\* every class, user included. An object ACE of the case that is inherited
\* and restricted to another class gives nothing.
C3_Amended ==
    C3_Case =>
        /\ (CurAce.ace.AceType = 5 /\ OtherClass) => emitted = <<>>
        /\ (CurAce.ace.AceType = 5 /\ ~OtherClass /\ entrytype = "domain")
            => Len(emitted) = 3 /\ Range(emitted) = ThreeWriteEdges(CurSid)
        /\ (CurAce.ace.AceType = 5 /\ ~OtherClass /\ entrytype = "user")
            => emitted = <<Edge(CurSid, "GenericWrite")>>
        /\ CurAce.ace.AceType = 0
            => emitted = <<Edge(CurSid, "GenericWrite"), Edge(CurSid, "WriteOwner"),
                           Edge(CurSid, "WriteDacl")>>

\* an object ACE of the case on a domain has appended the three edges
C3_Witness ==
    /\ C3_Case
    /\ CurAce.ace.AceType = 5
    /\ entrytype = "domain"
    /\ emitted = <<Edge("S-1-5-11", "GenericWrite"), Edge("S-1-5-11", "WriteDacl"),
                   Edge("S-1-5-11", "WriteOwner")>>

----------------------------------------------------------------------------
(* C4 *)

\* the ACE the claim speaks of: entry class domain, object ACE, not
\* inherit-only, subject not ignored, ObjectType present and equal to the
\* GetChanges GUID, ADS_RIGHT_DS_CONTROL_ACCESS in the mask
C4_Case ==
    /\ Walked
    /\ entrytype = "domain"
    /\ CurAce.ace.AceType = 5
    /\ ~HasBits(CurAce.ace.AceFlags, 8)
    /\ CurSid \notin IgnoredNames
    /\ HasBits(CurAce.acedata.data.Flags, 1)
    /\ CurAce.acedata.data.ObjectType = EXTRIGHTS_GUID_MAPPING.GetChanges
    /\ BitAnd(CurAce.acedata.mask, ADS_RIGHT_DS_CONTROL_ACCESS) # 0

\* C4: for every mask with the control-access bit, the ACE gives exactly
\* the one edge ExtendedRight GetChanges and no ExtendedRight All (ACEs
\* inherited for another class left out). The continue of line 112 breaks
\* it: with a coarse right in the mask the ACE gives no edge at all.
C4_AsClaimed ==
    (C4_Case /\ ~OtherClass) => emitted = <<Ext(CurSid, "GetChanges")>>

----------------------------------------------------------------------------
(* C5 *)

\* C5: an Owner edge only when the owner SID is present. For a descriptor
\* whose OffsetOwner is 0 the list returned holds no edge named Owner.
C5_NoOwnerEdgeWhenAbsent ==
    (acl.kind = "descriptor" /\ acl.OffsetOwner = 0 /\ result.returned)
        => "Owner" \notin RightNames(result.relations)

----------------------------------------------------------------------------
(* C6 *)

\* C6: when the declared AceCount needs more ACE bytes than the declared
\* tail (AclSize - 8) holds, the evaluation ends in an error and returns no
\* list: it never returns, no edge of the owner or of an earlier ACE is ever
\* put in a list, and the only way it ends is the decoder's error.
C6_OverrunRaises ==
    Overrun =>
        /\ ~result.returned
        /\ relations = <<>>
        /\ pc \in {"call", "raised"}
        /\ pc = "raised" => raised = "MalformedDescriptor"

\* a descriptor with a present, reportable owner and one well-formed ACE
\* granting GENERIC_ALL, declaring two ACEs, has ended in the error
C6_Witness ==
    /\ Overrun
    /\ pc = "raised"
    /\ raised = "MalformedDescriptor"
    /\ acl.OffsetOwner # 0
    /\ LdapSid_repr(acl.Owner) = "S-1-5-21-1-2-3-500"
    /\ acl.Dacl.AceCount = 2
    /\ Len(acl.Dacl.Data) = 1
    /\ acl.Dacl.Data[1].AceType = 0
    /\ acl.Dacl.Data[1].Data.Mask = GENERIC_ALL
    /\ LdapSid_repr(acl.Dacl.Data[1].Data.Sid) = "S-1-5-11"
    /\ result = NoResult

----------------------------------------------------------------------------
(* C7 *)

\* what the ACEs of types 0x00 and 0x05 among aces give, in order
RECURSIVE EvaluatedRelations(_, _)
EvaluatedRelations(aces, etype) ==
    IF Len(aces) = 0 THEN <<>>
    ELSE (IF aces[1].ace.AceType \in {0, 5} THEN AceRelations(aces[1], etype) ELSE <<>>)
         \o EvaluatedRelations(Tail(aces), etype)

IsEvaluatedType(ace_object) == ace_object.ace.AceType \in {0, 5}

\* C7: only ACEs of type 0x00 and 0x05 contribute. An ACE of a deny type or
\* of an unsupported type is decoded without an error (the decoder fails on
\* an overrun only), its iteration appends nothing, and the list built is
\* the one the other ACEs of the DACL give without it.
C7_OnlyAllowTypes ==
    /\ raised = "MalformedDescriptor" => (Overrun \/ SaclOverrun)
    /\ (Walked /\ ~IsEvaluatedType(CurAce)) => emitted = <<>>
    /\ (pc \in {"loop", "returned"} /\ sd.dacl.kind = "ACL")
        => relations =
             OwnerRelations(sd)
             \o EvaluatedRelations(
                    SelectSeq(SubSeq(sd.dacl.aces, 1, idx), IsEvaluatedType), entrytype)

\* a deny ACE granting GENERIC_ALL, decoded with its body, before an allow
\* ACE: the list returned is the owner edge and the edge of the allow ACE
C7_Witness ==
    /\ pc = "returned"
    /\ sd.dacl.kind = "ACL"
    /\ Len(sd.dacl.aces) = 2
    /\ sd.dacl.aces[1].ace.AceType = 1
    /\ sd.dacl.aces[1].acedata.mask = GENERIC_ALL
    /\ sd.dacl.aces[2].ace.AceType = 0
    /\ result.relations = <<Edge("S-1-5-21-1-2-3-500", "Owner"),
                            Edge("S-1-5-11", "GenericAll")>>

----------------------------------------------------------------------------
(* C8 *)

ClassAgnosticNames == {"Owner", "GenericAll", "GenericWrite", "WriteDacl", "WriteOwner"}

\* C8: for an entry class outside the five known ones the evaluation never
\* fails because of the class (it fails on an overrun or an absent DACL
\* only), every edge is one of Owner, GenericAll, GenericWrite, WriteDacl,
\* WriteOwner, and an object ACE with a present ObjectType and a coarse
\* right, or inherited with a present InheritedObjectType, appends nothing.
C8_UnknownClass ==
    entrytype \notin {"user", "group", "domain", "organizationalUnit",
                      "groupPolicyContainer"} =>
        /\ raised = "MalformedDescriptor" => (Overrun \/ SaclOverrun)
        /\ raised = "AttributeError" => acl.OffsetDacl = 0
        /\ RightNames(relations) \subseteq ClassAgnosticNames
        /\ RightNames(result.relations) \subseteq ClassAgnosticNames
        /\ (Walked /\ CurAce.ace.AceType = 5 /\ HasBits(CurAce.acedata.data.Flags, 1)
                /\ CoarseMask)
            => emitted = <<>>
        /\ (Walked /\ CurAce.ace.AceType = 5 /\ HasBits(CurAce.ace.AceFlags, 16)
                /\ HasBits(CurAce.acedata.data.Flags, 2))
            => emitted = <<>>

\* class unknown: an inherited object ACE granting GENERIC_ALL that carries
\* an InheritedObjectType has appended nothing
C8_Witness ==
    /\ entrytype = "unknown"
    /\ Walked
    /\ CurAce.ace.AceType = 5
    /\ CurAce.ace.AceFlags = 16
    /\ CurAce.acedata.data.Flags = 2
    /\ CurAce.acedata.mask = GENERIC_ALL
    /\ CurSid = "S-1-5-11"
    /\ emitted = <<>>

----------------------------------------------------------------------------
(* C9 *)

\* C9: an object ACE with INHERIT_ONLY_ACE set and INHERITED_ACE clear
\* appends no edge, whatever its mask, presence flags, GUIDs, subject and
\* the entry class.
C9_InheritOnly ==
    (Walked /\ CurAce.ace.AceType = 5
        /\ BitAnd(CurAce.ace.AceFlags, 8) = 8 /\ BitAnd(CurAce.ace.AceFlags, 16) = 0)
    => emitted = <<>>

\* an inherit-only object ACE granting GENERIC_ALL to a reportable subject,
\* without GUIDs, has been walked and has appended nothing
C9_Witness ==
    /\ Walked
    /\ CurAce.ace.AceType = 5
    /\ CurAce.ace.AceFlags = 8
    /\ CurAce.acedata.data.Flags = 0
    /\ CurAce.acedata.mask = GENERIC_ALL
    /\ CurSid = "S-1-5-11"
    /\ emitted = <<>>

----------------------------------------------------------------------------
(* C10 *)

\* C10: a well-formed descriptor whose OffsetDacl is 0 is evaluated without
\* error and the list returned holds at most the Owner edge.
C10_NoDaclNoError ==
    (acl.kind = "descriptor" /\ acl.OffsetDacl = 0 /\ ~SaclOverrun) =>
        /\ raised = ""
        /\ result.returned => RightNames(result.relations) \subseteq {"Owner"}

----------------------------------------------------------------------------
(* C11 *)

\* positions of the bits set in n, bit 0 being the lowest
RECURSIVE BitSet(_)
BitSet(n) ==
    IF n = 0 THEN {}
    ELSE (IF n % 2 = 1 THEN {0} ELSE {}) \cup {i + 1 : i \in BitSet(n \div 2)}

\* the call made last on access_mask, and the one before it
LastCall == calls[Len(calls)]
PrevCall == calls[Len(calls) - 1]
Removed == Len(calls) >= 1 /\ LastCall.op = "remove_priv" /\ LastCall.priv # 0

\* after remove_priv(priv), priv non-zero, has_priv(priv) is false
C11_PrivCleared ==
    Removed => ~(BitSet(LastCall.priv) \subseteq BitSet(access_mask.mask))

\* remove_priv(priv) leaves every bit outside priv as it was
C11_OutsideUnchanged ==
    Removed =>
        BitSet(access_mask.mask) \ BitSet(LastCall.priv)
            = BitSet(LastCall.before) \ BitSet(LastCall.priv)

\* a second remove_priv(priv) right after the first changes nothing
C11_Idempotent ==
    (Removed /\ Len(calls) >= 2 /\ PrevCall.op = "remove_priv"
        /\ PrevCall.priv = LastCall.priv)
    => access_mask.mask = LastCall.before

\* remove_priv(priv) right after set_priv(priv) on a mask that had none of
\* priv's bits gives that mask back
C11_UndoesSet ==
    (Removed /\ Len(calls) >= 2 /\ PrevCall.op = "set_priv"
        /\ PrevCall.priv = LastCall.priv
        /\ BitSet(PrevCall.before) \cap BitSet(LastCall.priv) = {})
    => access_mask.mask = PrevCall.before

\* C11: ACCESS_MASK.remove_priv clears a right: for every starting mask and
\* every non-zero priv, after remove_priv(priv) has_priv(priv) is false and
\* every bit outside priv is unchanged; remove_priv is idempotent and undoes
\* set_priv(priv) on a mask that had none of priv's bits.
C11_RemoveClears ==
    /\ C11_PrivCleared
    /\ C11_OutsideUnchanged
    /\ C11_Idempotent
    /\ C11_UndoesSet

====
